---- MODULE Spec2Model ----
(***************************************************************************)
(* Model of the Migrator component (the Migration Session Controller) of   *)
(* packages/ui_v2: its React state, the asynchronous startInstallation,    *)
(* the callback bundle handed to migrateDAO, and the host notifications.   *)
(*                                                                         *)
(* One action per handler.  startInstallation is an async function with a  *)
(* single suspension point (await getWeb3()), so it is two actions: the    *)
(* part before the await and the part after it.  Everything else runs to   *)
(* completion on the event loop and is one action each.                    *)
(*                                                                         *)
(* Further components are modelled beside it, each under its own           *)
(* specification: MembersCSVImport (SpecCSV), VotingMachineEditor          *)
(* (SpecEditor) and the forms of lib/forms (SpecForms).                    *)
(***************************************************************************)
EXTENDS Integers, Sequences, FiniteSets

(***************************************************************************)
(* Bounds of the model.                                                    *)
(***************************************************************************)
MaxAwaiting == 2    \* startInstallation calls suspended at await getWeb3()
MaxEngines == 2     \* migrateDAO invocations in one behaviour
MaxHostCalls == 5   \* host notifications recorded in one behaviour
MaxSpent == 3       \* cap on the accumulated cost
MaxApprovals == 1   \* approval promises created in one behaviour
MaxItems == 2       \* items of a JSON array in a checkpoint blob
MaxReaders == 3     \* FileReaders created by handleFileChosen in one behaviour
MaxFields == 6      \* length of the fields prop of VotingMachineEditor
MaxMembers == 2     \* member forms in a DAO form
MaxSchemes == 2     \* scheme forms in a DAO form

Msgs == {"m1"}
TxHashes == {"0xh1"}
Costs == {0, 1, 2}
Errors == {"err1"}
Results == {"res1", "res2"}
Daos == {"dao1", "dao2"}

(***************************************************************************)
(* enum STEP                                                               *)
(***************************************************************************)
Waiting == 0
Migrating == 1
Completed == 2
Failed == 3
STEP == {Waiting, Migrating, Completed, Failed}

VARIABLES
    step,             \* useState(STEP.Waiting)
    txList,           \* useState({})
    noWeb3Open,       \* useState(false)
    fullLogLines,     \* useState<AnyLogLine[]>([])
    minimalLogLines,  \* useState([])
    ethSpent,         \* useState(0)
    result,           \* useState<DAOMigrationResult | undefined>(undefined)
    onbeforeunload,   \* window.onbeforeunload
    console,          \* the last value written with console.log
    awaiting,         \* number of startInstallation calls suspended at the await
    engines,          \* one entry per migrateDAO(dao, callbacks) call
    hostCalls,        \* the props callbacks invoked so far, in order
    calls,            \* history: the props callbacks and the migrateDAO calls, in order
    costSinceStart,   \* history: costs passed to txComplete since the last migrateDAO call
    approvals,        \* promises returned by userApproval and not resolved
    localStorage,     \* the items stored under "DAO_MIGRATION_STATE": none or one text
    openDialog,       \* MembersCSVImport: this.state.openDialog
    readers,          \* MembersCSVImport: the FileReaders of handleFileChosen
    fileReader,       \* MembersCSVImport: this.fileReader, 0 or an index of readers
    members,          \* MembersCSVImport: this.props.form.$
    imports,          \* MembersCSVImport: importCSV events handled so far
    parsing,          \* MembersCSVImport: parse calls whose callback is due
    fields,           \* VotingMachineEditor: the fields prop
    editable,         \* VotingMachineEditor: the editable prop
    rendered,         \* VotingMachineEditor: the elements of the latest render
    unexpected,       \* VotingMachineEditor: "UNEXPECTED PARAM" lines it logged
    daoForm,          \* forms: a DAOForm being filled in
    copied            \* forms: the latest CreateDAOForm(daoForm), with its argument

migratorVars == <<step, txList, noWeb3Open, fullLogLines, minimalLogLines,
                  ethSpent, result, onbeforeunload, console, awaiting, engines,
                  hostCalls, calls, costSinceStart, approvals, localStorage>>

\* migratorVars without console, which the other components write as well
migratorVarsButConsole ==
    <<step, txList, noWeb3Open, fullLogLines, minimalLogLines, ethSpent, result,
      onbeforeunload, awaiting, engines, hostCalls, calls, costSinceStart,
      approvals, localStorage>>

csvVars == <<openDialog, readers, fileReader, members, imports, parsing>>

editorVars == <<fields, editable, rendered, unexpected>>

formVars == <<daoForm, copied>>

vars == <<migratorVars, csvVars, editorVars, formVars>>

(***************************************************************************)
(* Values.                                                                 *)
(***************************************************************************)
Undefined == "undefined"

\* window.onbeforeunload: unset, the function returning the warning text,
\* or the function returning undefined (which shows no prompt).
GuardUnset == "null"
GuardWarn == "Your migration is still in progress. Do you really want to leave?"
GuardSilent == "returns undefined"
GuardActive == onbeforeunload = GuardWarn

Text(s) == [kind |-> "text", msg |-> s]

\* Log line classes of ./LogLineTypes
LogUserApproval(msg) == [kind |-> "LogUserApproval", msg |-> msg]
LogInfo(msg) == [kind |-> "LogInfo", msg |-> msg]
LogError(msg) == [kind |-> "LogError", msg |-> msg]
LogTransactionResult(msg, txHash, txCost) ==
    [kind |-> "LogTransactionResult", msg |-> msg, txHash |-> txHash, txCost |-> txCost]
LogMigrationAborted(err) == [kind |-> "LogMigrationAborted", msg |-> err]

\* Host notifications (props)
onStart == [fn |-> "onStart", arg |-> "none"]
onStop == [fn |-> "onStop", arg |-> "none"]
onAbort(err) == [fn |-> "onAbort", arg |-> err]
onComplete(res) == [fn |-> "onComplete", arg |-> res]

\* migrateDAO(dao, callbacks), as an entry of calls
migrateDAO(dao) == [fn |-> "migrateDAO", arg |-> dao]

\* What await getWeb3() can do: resolve with a client, resolve with a falsy
\* value, or reject.
ProviderOutcomes == {"client", "null", "throw"}

(***************************************************************************)
(* JSON values and text, as JSON.stringify and JSON.parse treat them.      *)
(* A text is a sequence of characters.                                     *)
(***************************************************************************)
JNull == [t |-> "null", v |-> 0]
JBool(b) == [t |-> "bool", v |-> b]
JNum(n) == [t |-> "num", v |-> n]
JStr(s) == [t |-> "str", v |-> s]
JArr(items) == [t |-> "arr", v |-> items]
JObj(pairs) == [t |-> "obj", v |-> pairs]
EmptyObject == JObj(<<>>)

StrChars == {"a", "\"", "\\"}
Digits == <<"0", "1", "2", "3", "4", "5", "6", "7", "8", "9">>

\* The blobs the round trip is checked on: scalars, arrays of scalars and
\* objects of one scalar property.
JsonScalars ==
    {JNull, JBool(TRUE), JBool(FALSE)}
      \cup {JNum(n) : n \in {0, 7, 10}}
      \cup {JStr(<<>>)} \cup {JStr(<<c>>) : c \in StrChars}
SeqsUpTo(S, n) == UNION {[1..k -> S] : k \in 0..n}
JsonValues ==
    JsonScalars
      \cup {JArr(items) : items \in SeqsUpTo(JsonScalars, MaxItems)}
      \cup {EmptyObject}
      \cup {JObj(<<<< <<"a">>, x >>>>) : x \in JsonScalars}

\* The checkpoints the Engine writes during a migration, and the one an
\* interrupted migration of an earlier page load may have left behind.
Checkpoints == {JObj(<<<< <<"a">>, JNum(0) >>>>), JObj(<<<< <<"a">>, JNum(7) >>>>)}
LeftBehind == {JObj(<<<< <<"a">>, JNum(0) >>>>)}

RECURSIVE DecimalOf(_)
DecimalOf(n) ==
    IF n < 10 THEN <<Digits[n + 1]>>
    ELSE DecimalOf(n \div 10) \o <<Digits[(n % 10) + 1]>>

RECURSIVE Quote(_)
Quote(s) ==
    IF s = <<>> THEN <<>>
    ELSE (IF Head(s) \in {"\"", "\\"} THEN <<"\\", Head(s)>> ELSE <<Head(s)>>)
           \o Quote(Tail(s))
QuotedString(s) == <<"\"">> \o Quote(s) \o <<"\"">>

RECURSIVE JSONstringify(_)
RECURSIVE StringifyItems(_)
RECURSIVE StringifyPairs(_)
JSONstringify(x) ==
    CASE x.t = "null" -> <<"n", "u", "l", "l">>
      [] x.t = "bool" -> IF x.v THEN <<"t", "r", "u", "e">>
                         ELSE <<"f", "a", "l", "s", "e">>
      [] x.t = "num" -> DecimalOf(x.v)
      [] x.t = "str" -> QuotedString(x.v)
      [] x.t = "arr" -> <<"[">> \o StringifyItems(x.v) \o <<"]">>
      [] x.t = "obj" -> <<"{">> \o StringifyPairs(x.v) \o <<"}">>
StringifyItems(items) ==
    IF items = <<>> THEN <<>>
    ELSE JSONstringify(Head(items))
           \o (IF Tail(items) = <<>> THEN <<>>
               ELSE <<",">> \o StringifyItems(Tail(items)))
StringifyPairs(pairs) ==
    IF pairs = <<>> THEN <<>>
    ELSE QuotedString(Head(pairs)[1]) \o <<":">> \o JSONstringify(Head(pairs)[2])
           \o (IF Tail(pairs) = <<>> THEN <<>>
               ELSE <<",">> \o StringifyPairs(Tail(pairs)))

\* Each parser returns [val |-> value read, rest |-> text not yet read].
DigitValue(c) == CHOOSE d \in 0..9 : Digits[d + 1] = c
IsDigit(c) == \E d \in 1..10 : Digits[d] = c
Drop(s, n) == SubSeq(s, n + 1, Len(s))

RECURSIVE ParseDigits(_, _)
ParseDigits(acc, s) ==
    IF s # <<>> /\ IsDigit(Head(s))
    THEN ParseDigits(acc * 10 + DigitValue(Head(s)), Tail(s))
    ELSE [val |-> JNum(acc), rest |-> s]

\* s starts after the opening quote
RECURSIVE ParseChars(_, _)
ParseChars(acc, s) ==
    IF Head(s) = "\"" THEN [val |-> acc, rest |-> Tail(s)]
    ELSE IF Head(s) = "\\" THEN ParseChars(Append(acc, s[2]), Drop(s, 2))
    ELSE ParseChars(Append(acc, Head(s)), Tail(s))

RECURSIVE ParseValue(_)
RECURSIVE ParseItems(_, _)
RECURSIVE ParsePairs(_, _)
ParseValue(s) ==
    CASE Head(s) = "n" -> [val |-> JNull, rest |-> Drop(s, 4)]
      [] Head(s) = "t" -> [val |-> JBool(TRUE), rest |-> Drop(s, 4)]
      [] Head(s) = "f" -> [val |-> JBool(FALSE), rest |-> Drop(s, 5)]
      [] Head(s) = "\"" -> LET r == ParseChars(<<>>, Tail(s))
                           IN [val |-> JStr(r.val), rest |-> r.rest]
      [] Head(s) = "[" -> IF s[2] = "]"
                          THEN [val |-> JArr(<<>>), rest |-> Drop(s, 2)]
                          ELSE ParseItems(<<>>, Tail(s))
      [] Head(s) = "{" -> IF s[2] = "}"
                          THEN [val |-> JObj(<<>>), rest |-> Drop(s, 2)]
                          ELSE ParsePairs(<<>>, Tail(s))
      [] OTHER -> ParseDigits(0, s)
ParseItems(acc, s) ==
    LET r == ParseValue(s)
        items == Append(acc, r.val)
    IN IF Head(r.rest) = "," THEN ParseItems(items, Tail(r.rest))
       ELSE [val |-> JArr(items), rest |-> Tail(r.rest)]
ParsePairs(acc, s) ==
    LET k == ParseChars(<<>>, Tail(s))
        r == ParseValue(Tail(k.rest))
        pairs == Append(acc, <<k.val, r.val>>)
    IN IF Head(r.rest) = "," THEN ParsePairs(pairs, Tail(r.rest))
       ELSE [val |-> JObj(pairs), rest |-> Tail(r.rest)]
JSONparse(s) == ParseValue(s).val

\* localStorage, restricted to the key "DAO_MIGRATION_STATE"
NoItem == <<>>
Item(text) == <<text>>
CheckpointPresent == localStorage # NoItem

(***************************************************************************)
(* MembersCSVImport                                                        *)
(***************************************************************************)
\* A CSV text, as the sequence of its cells and separators.
FileA == <<"address", ",", "reputation", ",", "tokens", "\n",
           "0xa", ",", "1", ",", "2">>
FileB == <<"tokens", ",", "address", ",", "reputation", "\n",
           "5", ",", "0xb", ",", "3", "\n",
           "6", ",", "0xc", ",", "4">>
CsvFiles == {FileA, FileB}

\* event.target.files: the non-empty selections of at most n different files
FileLists(n) ==
    {files \in UNION {[1..k -> CsvFiles] : k \in 1..n} :
       \A i, j \in DOMAIN files : files[i] = files[j] => i = j}

\* FileReader.result: null until the load has finished, then the text
Null == <<>>
Loaded(text) == <<text>>

\* csv-parse with {columns: true}: the text is cut into lines and the lines
\* into cells; the first line names the columns and every other line becomes
\* a record from column name to cell.
RECURSIVE SplitOn(_, _, _, _)
SplitOn(acc, cur, rest, sep) ==
    IF rest = <<>> THEN Append(acc, cur)
    ELSE IF Head(rest) = sep THEN SplitOn(Append(acc, cur), <<>>, Tail(rest), sep)
    ELSE SplitOn(acc, Append(cur, Head(rest)), Tail(rest), sep)

CellsOf(line) ==
    LET pieces == SplitOn(<<>>, <<>>, line, ",")
    IN [j \in 1..Len(pieces) |-> IF pieces[j] = <<>> THEN "" ELSE pieces[j][1]]

LinesOf(text) ==
    IF text = <<>> THEN <<>>
    ELSE LET lines == SplitOn(<<>>, <<>>, text, "\n")
         IN [i \in 1..Len(lines) |-> CellsOf(lines[i])]

parse(csv) ==
    LET rows == LinesOf(csv)
        columns == rows[1]
        ColumnOf(c) == CHOOSE j \in DOMAIN columns : columns[j] = c
    IN IF rows = <<>> THEN <<>>
       ELSE [k \in 1..(Len(rows) - 1) |->
               [c \in {columns[j] : j \in DOMAIN columns} |->
                  rows[k + 1][ColumnOf(c)]]]

\* member.address and the like: undefined when the column is missing
Column(member, name) ==
    IF name \in DOMAIN member THEN member[name] ELSE Undefined

\* addMembers: the MemberForm pushed for one record
addMembers(member) ==
    [address |-> Column(member, "address"),
     reputation |-> Column(member, "reputation"),
     tokens |-> Column(member, "tokens")]

\* The Fab's onClick
fabClick ==
    /\ openDialog' = TRUE
    /\ UNCHANGED <<readers, fileReader, members, imports, parsing>>

handleDialogClose ==
    /\ openDialog' = FALSE
    /\ UNCHANGED <<readers, fileReader, members, imports, parsing>>

\* handleFileChosen for one file: a new FileReader, which this.fileReader
\* then names, starts reading the file.
handleFileChosen(rs, file) == Append(rs, [file |-> file, result |-> Null])

RECURSIVE MapFiles(_, _)
MapFiles(rs, files) ==
    IF files = <<>> THEN rs
    ELSE MapFiles(handleFileChosen(rs, Head(files)), Tail(files))

\* importCSV: handleFileChosen runs for each file before any load ends.
importCSV(files) ==
    /\ Len(readers) + Len(files) <= MaxReaders
    /\ readers' = MapFiles(readers, files)
    /\ fileReader' = Len(readers) + Len(files)
    /\ imports' = imports + 1
    /\ UNCHANGED <<openDialog, members, parsing>>

\* handleFileRead, run as the onloadend handler of a reader whose load has
\* just ended: it reads this.fileReader.result and calls parse, which
\* delivers parseCSV later, as an event of its own.  Given a csv that is not a
\* text, csv-parse throws, or calls parseCSV with an error and no members
\* (members.map then throws), or calls it with an empty list, at once or
\* later, depending on its version: no member is added, and only in the last
\* case handleDialogClose is reached.
handleFileRead ==
    LET csv == IF fileReader = 0 THEN Null ELSE readers'[fileReader].result
    IN /\ \/ /\ parsing' = Append(parsing, csv)
             /\ UNCHANGED openDialog
          \/ /\ csv = Null
             /\ openDialog' \in {openDialog, FALSE}
             /\ UNCHANGED parsing
       /\ UNCHANGED <<fileReader, members, imports>>

\* The load of reader i ends: its result is set and onloadend is called.
onloadend(i) ==
    /\ i \in DOMAIN readers
    /\ readers[i].result = Null
    /\ readers' = [readers EXCEPT ![i].result = Loaded(readers[i].file)]
    /\ handleFileRead

\* parseCSV, the callback of the k-th parse call still due
parseCSV(k) ==
    /\ k \in DOMAIN parsing
    /\ parsing' = SubSeq(parsing, 1, k - 1)
                     \o SubSeq(parsing, k + 1, Len(parsing))
    /\ IF parsing[k] = Null
       THEN /\ members' = members
            /\ openDialog' \in {openDialog, FALSE}
       ELSE LET parsed == parse(parsing[k][1])
            IN /\ members' = members \o
                     [j \in 1..Len(parsed) |-> addMembers(parsed[j])]
               /\ openDialog' = FALSE
    /\ UNCHANGED <<readers, fileReader, imports>>

(***************************************************************************)
(* VotingMachineEditor                                                     *)
(***************************************************************************)
\* The AnyField objects a form can hold
FieldIds == 1..MaxFields

NoKey == <<>>
Key(index) == <<"genproto-field-", index>>

FormField(field, ed, key) ==
    [tag |-> "FormField", field |-> field, editable |-> ed, key |-> key]

MDBRow(key, children) ==
    [tag |-> "MDBRow", key |-> key, children |-> children]

\* fs[index] with the indices of the source, which start at 0
At(fs, index) == fs[index + 1]

\* The elements returned by fields.map(...)
VotingMachineEditor(fs, ed) ==
    [i \in 1..Len(fs) |->
       LET index == i - 1
           field == At(fs, index)
       IN IF index <= 3
          THEN FormField(field, ed, Key(index))
          ELSE IF index % 2 # 0
          THEN MDBRow(Key(index),
                      <<FormField(field, ed, NoKey),
                        FormField(At(fs, index - 1), ed, NoKey)>>)
          ELSE FormField(field, ed, Key(index))]

\* The number of console.log("UNEXPECTED PARAM") calls of one render
UnexpectedParams(fs) ==
    Cardinality({i \in 1..Len(fs) : ~(i - 1 <= 3) /\ ~((i - 1) % 2 # 0)})

\* React renders the component with the props fs and ed; each field that
\* falls through to the last return writes "UNEXPECTED PARAM" to the console.
render(fs, ed) ==
    /\ fields' = fs
    /\ editable' = ed
    /\ rendered' = VotingMachineEditor(fs, ed)
    /\ unexpected' = UnexpectedParams(fs)
    /\ console' = IF UnexpectedParams(fs) > 0 THEN Text("UNEXPECTED PARAM")
                  ELSE console

(***************************************************************************)
(* lib/forms: the DAO form and its parts.  A form is written as a record   *)
(* whose component "inputs" is the $ of the source; of a field only its    *)
(* value is kept, which is all that toState reads.  Numeric texts are      *)
(* sequences of digits.                                                    *)
(***************************************************************************)
\* The argument of a Create...Form call made without a form
NoForm == [none |-> TRUE]

FriendlyField(value) == [value |-> value]

\* toBN: the number a decimal text denotes, written without leading zeros
RECURSIVE toBN(_)
toBN(text) ==
    IF Len(text) > 1 /\ Head(text) = "0" THEN toBN(Tail(text)) ELSE text

\* toWei: the amount times 10^18
toWei(bn) == IF bn = <<"0">> THEN bn ELSE bn \o [i \in 1..18 |-> "0"]

ZeroAddress == "0x0000000000000000000000000000000000000000"

CreateDAOConfigForm(form) ==
    [inputs |->
       [daoName |->
          FriendlyField(IF form # NoForm THEN form.inputs.daoName.value ELSE ""),
        tokenName |->
          FriendlyField(IF form # NoForm THEN form.inputs.tokenName.value ELSE ""),
        tokenSymbol |->
          FriendlyField(IF form # NoForm THEN form.inputs.tokenSymbol.value
                        ELSE "")]]

DAOConfigToState(form) ==
    [daoName |-> form.inputs.daoName.value,
     tokenName |-> form.inputs.tokenName.value,
     tokenSymbol |-> form.inputs.tokenSymbol.value]

\* CreateMemberForm() followed by writes of the three field values
MemberFormOf(address, reputation, tokens) ==
    [inputs |-> [address |-> FriendlyField(address),
                 reputation |-> FriendlyField(reputation),
                 tokens |-> FriendlyField(tokens)]]

MemberToState(form) ==
    [address |-> form.inputs.address.value,
     tokens |-> toBN(form.inputs.tokens.value),
     reputation |-> toBN(form.inputs.reputation.value)]

\* form.$.map(value => value): a new array of the same member forms
CreateMembersForm(form) ==
    [inputs |-> IF form # NoForm
                THEN [i \in 1..Len(form.inputs) |-> form.inputs[i]]
                ELSE <<>>]

MembersToState(form) ==
    [i \in 1..Len(form.inputs) |-> MemberToState(form.inputs[i])]

\* CreateGenesisProtocolForm(): the defaults of the twelve parameters
CreateGenesisProtocolForm ==
    [inputs |->
       [queuedVoteRequiredPercentage |-> FriendlyField(<<"5", "0">>),
        queuedVotePeriodLimit |-> FriendlyField(<<"1", "8", "0", "0">>),
        thresholdConst |-> FriendlyField(<<"2", "0", "0", "0">>),
        proposingRepReward |-> FriendlyField(<<"5">>),
        minimumDaoBounty |-> FriendlyField(<<"1", "0", "0">>),
        boostedVotePeriodLimit |->
          FriendlyField(<<"2", "5", "9", "2", "0", "0">>),
        daoBountyConst |-> FriendlyField(<<"7", "5">>),
        activationTime |-> FriendlyField(<<"0">>),
        preBoostedVotePeriodLimit |->
          FriendlyField(<<"1", "8", "1", "4", "4", "0", "0">>),
        quietEndingPeriod |-> FriendlyField(<<"8", "6", "4", "0", "0">>),
        voteOnBehalf |-> FriendlyField(ZeroAddress),
        votersReputationLossRatio |-> FriendlyField(<<"1">>)]]

GenesisProtocolToState(form) ==
    [config |->
       [queuedVoteRequiredPercentage |->
          toBN(form.inputs.queuedVoteRequiredPercentage.value),
        queuedVotePeriodLimit |-> toBN(form.inputs.queuedVotePeriodLimit.value),
        thresholdConst |-> toBN(form.inputs.thresholdConst.value),
        proposingRepReward |->
          toBN(toWei(toBN(form.inputs.proposingRepReward.value))),
        minimumDaoBounty |->
          toBN(toWei(toBN(form.inputs.minimumDaoBounty.value))),
        boostedVotePeriodLimit |->
          toBN(form.inputs.boostedVotePeriodLimit.value),
        daoBountyConst |-> toBN(form.inputs.daoBountyConst.value),
        activationTime |-> toBN(form.inputs.activationTime.value),
        preBoostedVotePeriodLimit |->
          toBN(form.inputs.preBoostedVotePeriodLimit.value),
        quietEndingPeriod |-> toBN(form.inputs.quietEndingPeriod.value),
        voteOnBehalf |-> form.inputs.voteOnBehalf.value,
        votersReputationLossRatio |->
          toBN(form.inputs.votersReputationLossRatio.value)]]

\* CreateGenericSchemeForm() with contractToCall written
GenericSchemeFormOf(contractToCall) ==
    [type |-> "GenericScheme",
     inputs |-> [votingMachine |-> CreateGenesisProtocolForm,
                 contractToCall |-> FriendlyField(contractToCall)]]

CreateContributionRewardForm ==
    [type |-> "ContributionReward",
     inputs |-> [votingMachine |-> CreateGenesisProtocolForm]]

CreateSchemeRegistrarForm ==
    [type |-> "SchemeRegistrar",
     inputs |-> [votingMachine |-> CreateGenesisProtocolForm]]

\* schemeForm.toState(), by the constructor that made the form
SchemeToState(form) ==
    IF form.type = "GenericScheme"
    THEN [type |-> form.type,
          contractToCall |-> form.inputs.contractToCall.value,
          votingMachine |-> GenesisProtocolToState(form.inputs.votingMachine)]
    ELSE [type |-> form.type,
          votingMachine |-> GenesisProtocolToState(form.inputs.votingMachine)]

\* The form argument is not read: the new form starts with no scheme forms.
CreateSchemesForm(form) == [inputs |-> <<>>]

SchemesToState(form) ==
    [i \in 1..Len(form.inputs) |-> SchemeToState(form.inputs[i])]

CreateDAOForm(form) ==
    [inputs |->
       [config |->
          CreateDAOConfigForm(IF form # NoForm THEN form.inputs.config ELSE NoForm),
        members |->
          CreateMembersForm(IF form # NoForm THEN form.inputs.members ELSE NoForm),
        schemes |->
          CreateSchemesForm(IF form # NoForm THEN form.inputs.schemes
                            ELSE NoForm)]]

DAOToState(form) ==
    [config |-> DAOConfigToState(form.inputs.config),
     members |-> MembersToState(form.inputs.members),
     schemes |-> SchemesToState(form.inputs.schemes)]

\* BN.toString(): the decimal text of the number
toString(bn) == toBN(bn)

RECURSIVE StripTrailingZeros(_)
StripTrailingZeros(text) ==
    IF text # <<>> /\ text[Len(text)] = "0"
    THEN StripTrailingZeros(SubSeq(text, 1, Len(text) - 1))
    ELSE text

\* fromWei: the amount divided by 10^18, as a decimal text
fromWei(bn) ==
    LET padded == IF Len(bn) <= 18 THEN [i \in 1..(19 - Len(bn)) |-> "0"] \o bn
                  ELSE bn
        whole == SubSeq(padded, 1, Len(padded) - 18)
        fraction == StripTrailingZeros(SubSeq(padded, Len(padded) - 17, Len(padded)))
    IN IF fraction = <<>> THEN whole ELSE whole \o <<".">> \o fraction

DAOConfigFromState(form, state) ==
    [form EXCEPT !.inputs.daoName.value = state.daoName,
                 !.inputs.tokenName.value = state.tokenName,
                 !.inputs.tokenSymbol.value = state.tokenSymbol]

\* CreateMemberForm(): the three fields empty
CreateMemberForm == MemberFormOf("", <<>>, <<>>)

MemberFromState(form, state) ==
    [form EXCEPT !.inputs.address.value = state.address,
                 !.inputs.reputation.value = toString(state.reputation),
                 !.inputs.tokens.value = toString(state.tokens)]

\* this.$ is replaced by one new member form per member of the state
MembersFromState(form, state) ==
    [form EXCEPT !.inputs =
       [i \in 1..Len(state) |-> MemberFromState(CreateMemberForm, state[i])]]

GenesisProtocolFromState(form, state) ==
    LET config == state.config
    IN [form EXCEPT
          !.inputs.queuedVoteRequiredPercentage.value =
             toString(config.queuedVoteRequiredPercentage),
          !.inputs.queuedVotePeriodLimit.value =
             toString(config.queuedVotePeriodLimit),
          !.inputs.thresholdConst.value = toString(config.thresholdConst),
          !.inputs.proposingRepReward.value = fromWei(config.proposingRepReward),
          !.inputs.minimumDaoBounty.value = fromWei(config.minimumDaoBounty),
          !.inputs.boostedVotePeriodLimit.value =
             toString(config.boostedVotePeriodLimit),
          !.inputs.daoBountyConst.value = toString(config.daoBountyConst),
          !.inputs.activationTime.value = toString(config.activationTime),
          !.inputs.preBoostedVotePeriodLimit.value =
             toString(config.preBoostedVotePeriodLimit),
          !.inputs.quietEndingPeriod.value = toString(config.quietEndingPeriod),
          !.inputs.voteOnBehalf.value = config.voteOnBehalf,
          !.inputs.votersReputationLossRatio.value =
             toString(config.votersReputationLossRatio)]

\* schemeForm.fromState(scheme), for a scheme of the form's own type
SchemeFromState(form, state) ==
    IF form.type = "GenericScheme"
    THEN [form EXCEPT
            !.inputs.contractToCall.value = state.contractToCall,
            !.inputs.votingMachine =
               GenesisProtocolFromState(@, state.votingMachine)]
    ELSE [form EXCEPT
            !.inputs.votingMachine =
               GenesisProtocolFromState(@, state.votingMachine)]

\* The switch on scheme.type: the form made for one scheme of the state
SchemeFormFor(scheme) ==
    IF scheme.type = "ContributionReward"
    THEN SchemeFromState(CreateContributionRewardForm, scheme)
    ELSE IF scheme.type = "SchemeRegistrar"
    THEN SchemeFromState(CreateSchemeRegistrarForm, scheme)
    ELSE SchemeFromState(GenericSchemeFormOf(ZeroAddress), scheme)

\* this.$ is replaced, unless a scheme of an unimplemented type makes the
\* map throw, which leaves this.$ as it was.
SchemesFromState(form, state) ==
    IF \E i \in DOMAIN state :
         state[i].type \notin {"ContributionReward", "SchemeRegistrar",
                               "GenericScheme"}
    THEN form
    ELSE [form EXCEPT !.inputs =
            [i \in 1..Len(state) |-> SchemeFormFor(state[i])]]

\* config, members and schemes in this order: when the schemes throw, the
\* other two have been written.
DAOFromState(form, state) ==
    [form EXCEPT
       !.inputs.config = DAOConfigFromState(@, state.config),
       !.inputs.members = MembersFromState(@, state.members),
       !.inputs.schemes = SchemesFromState(@, state.schemes)]

\* What the user types into the fields
Names == {"", "dOrg"}
MemberInputs == {<<"0xa", <<"1">>, <<"0", "7">> >>, <<"0xb", <<"0", "7">>, <<"1">> >>}
ContractAddress == "0xa"

ConfigFields == {"daoName", "tokenName", "tokenSymbol"}

\* The scheme forms the user adds
NewSchemeForms ==
    {CreateContributionRewardForm, CreateSchemeRegistrarForm,
     GenericSchemeFormOf(ContractAddress)}

\* The states handed to fromState
ConfigStates == {[daoName |-> n, tokenName |-> n, tokenSymbol |-> n] : n \in Names}

MemberStates == {MemberToState(MemberFormOf(m[1], m[2], m[3])) : m \in MemberInputs}

\* The default parameters, and two of them changed: seven seconds, two tokens
GenesisProtocolStates ==
    {GenesisProtocolToState(CreateGenesisProtocolForm),
     GenesisProtocolToState(
       [CreateGenesisProtocolForm EXCEPT
          !.inputs.activationTime.value = <<"7">>,
          !.inputs.proposingRepReward.value = <<"2">>])}

\* Schemes of the three implemented types, and one of another type
SchemeStates ==
    {SchemeToState([f EXCEPT !.inputs.votingMachine =
                      GenesisProtocolFromState(@, vm)]) :
       f \in NewSchemeForms, vm \in GenesisProtocolStates}
      \cup {[type |-> "UnknownScheme",
             votingMachine |-> GenesisProtocolToState(CreateGenesisProtocolForm)]}

ListsUpTo(S, n) == UNION {[1..k -> S] : k \in 0..n}

DAOStates ==
    {[config |-> c, members |-> <<m>>, schemes |-> <<sc>>] :
       c \in ConfigStates, m \in MemberStates, sc \in SchemeStates}

\* The user edits one field of the config form.
setConfigValue(name, value) ==
    /\ daoForm' = [daoForm EXCEPT !.inputs.config.inputs[name].value = value]
    /\ copied' = NoForm

\* A member form is pushed onto the members form.
pushMember(address, reputation, tokens) ==
    /\ Len(daoForm.inputs.members.inputs) < MaxMembers
    /\ daoForm' = [daoForm EXCEPT !.inputs.members.inputs =
                     Append(@, MemberFormOf(address, reputation, tokens))]
    /\ copied' = NoForm

\* A scheme form is pushed onto the schemes form.
pushScheme(schemeForm) ==
    /\ Len(daoForm.inputs.schemes.inputs) < MaxSchemes
    /\ daoForm' = [daoForm EXCEPT !.inputs.schemes.inputs = Append(@, schemeForm)]
    /\ copied' = NoForm

\* daoForm.fromState(state)
daoFromState(state) ==
    /\ daoForm' = DAOFromState(daoForm, state)
    /\ copied' = NoForm

\* daoForm.$.config.fromState(state)
configFromState(state) ==
    /\ daoForm' = [daoForm EXCEPT !.inputs.config = DAOConfigFromState(@, state)]
    /\ copied' = NoForm

\* daoForm.$.members.fromState(state)
membersFromState(state) ==
    /\ daoForm' = [daoForm EXCEPT !.inputs.members = MembersFromState(@, state)]
    /\ copied' = NoForm

\* fromState of the i-th member form
memberFromState(i, state) ==
    /\ i \in DOMAIN daoForm.inputs.members.inputs
    /\ daoForm' = [daoForm EXCEPT !.inputs.members.inputs[i] =
                     MemberFromState(@, state)]
    /\ copied' = NoForm

\* daoForm.$.schemes.fromState(state)
schemesFromState(state) ==
    /\ daoForm' = [daoForm EXCEPT !.inputs.schemes = SchemesFromState(@, state)]
    /\ copied' = NoForm

\* fromState of the i-th scheme form, given a scheme of its type
schemeFromState(i, state) ==
    /\ i \in DOMAIN daoForm.inputs.schemes.inputs
    /\ daoForm.inputs.schemes.inputs[i].type = state.type
    /\ daoForm' = [daoForm EXCEPT !.inputs.schemes.inputs[i] =
                     SchemeFromState(@, state)]
    /\ copied' = NoForm

\* fromState of the voting machine form of the i-th scheme form
votingMachineFromState(i, state) ==
    /\ i \in DOMAIN daoForm.inputs.schemes.inputs
    /\ daoForm' = [daoForm EXCEPT !.inputs.schemes.inputs[i].inputs.votingMachine =
                     GenesisProtocolFromState(@, state)]
    /\ copied' = NoForm

\* CreateDAOForm(daoForm) is called; copied keeps the argument beside the
\* result.
copyForm ==
    /\ copied' = [of |-> daoForm, form |-> CreateDAOForm(daoForm)]
    /\ UNCHANGED daoForm

Init ==
    /\ step = Waiting
    /\ txList = <<>>
    /\ noWeb3Open = FALSE
    /\ fullLogLines = <<>>
    /\ minimalLogLines = <<>>
    /\ ethSpent = 0
    /\ result = Undefined
    /\ onbeforeunload = GuardUnset
    /\ console = Text("")
    /\ awaiting = 0
    /\ engines = <<>>
    /\ hostCalls = <<>>
    /\ calls = <<>>
    /\ costSinceStart = 0
    /\ approvals = 0
    /\ localStorage \in {NoItem} \cup {Item(JSONstringify(b)) : b \in LeftBehind}
    /\ openDialog = FALSE
    /\ readers = <<>>
    /\ fileReader = 0
    /\ members = <<>>
    /\ imports = 0
    /\ parsing = <<>>
    /\ fields = <<>>
    /\ editable = FALSE
    /\ rendered = VotingMachineEditor(<<>>, FALSE)
    /\ unexpected = 0
    /\ daoForm = CreateDAOForm(NoForm)
    /\ copied = NoForm

(***************************************************************************)
(* resetState and nextStep                                                 *)
(***************************************************************************)
\* Mutant: setNoWeb3Open(false) left out.
resetState_keepsFlag ==
    /\ step' = Waiting
    /\ txList' = <<>>
    /\ UNCHANGED <<noWeb3Open, fullLogLines, minimalLogLines, ethSpent, result,
                   onbeforeunload, console, awaiting, engines, hostCalls, calls,
                   costSinceStart, approvals, localStorage>>

\* Mutant: the reset also removes the stored checkpoint.
resetState_clearsCheckpoint ==
    /\ step' = Waiting
    /\ txList' = <<>>
    /\ noWeb3Open' = FALSE
    /\ localStorage' = <<>>
    /\ UNCHANGED <<fullLogLines, minimalLogLines, ethSpent, result,
                   onbeforeunload, console, awaiting, engines, hostCalls, calls,
                   costSinceStart, approvals>>

resetState ==
    /\ step' = Waiting
    /\ txList' = <<>>
    /\ noWeb3Open' = FALSE
    /\ UNCHANGED <<fullLogLines, minimalLogLines, ethSpent, result,
                   onbeforeunload, console, awaiting, engines, hostCalls, calls,
                   costSinceStart, approvals, localStorage>>

\* The value of the expression step++ is the value before the increment;
\* the updater's parameter is a local, so the state is set to the old value.
PostIncrement(s) == s

nextStep ==
    /\ console' = Text("Go to next step")
    /\ step' = PostIncrement(step)
    /\ UNCHANGED <<txList, noWeb3Open, fullLogLines, minimalLogLines, ethSpent,
                   result, onbeforeunload, awaiting, engines, hostCalls, calls,
                   costSinceStart, approvals, localStorage>>

\* openAlchemy: the onClick of the button rendered once step is Completed
openAlchemy ==
    /\ console' = Text("Open Alchemy")
    /\ UNCHANGED <<step, txList, noWeb3Open, fullLogLines, minimalLogLines,
                   ethSpent, result, onbeforeunload, awaiting, engines,
                   hostCalls, calls, costSinceStart, approvals, localStorage>>

(***************************************************************************)
(* startInstallation, up to the await                                      *)
(***************************************************************************)
\* Mutant: the step check of line 135 left out.
startInstallation_unguarded ==
    /\ console' = Text("Starting Installation")
    /\ awaiting < MaxAwaiting
    /\ awaiting' = awaiting + 1
    /\ UNCHANGED <<step, txList, noWeb3Open, fullLogLines, minimalLogLines,
                   ethSpent, result, onbeforeunload, engines, hostCalls, calls,
                   costSinceStart, approvals, localStorage>>

startInstallation ==
    /\ console' = Text("Starting Installation")
    /\ step = Waiting => awaiting < MaxAwaiting
    /\ awaiting' = IF step # Waiting THEN awaiting ELSE awaiting + 1
    /\ UNCHANGED <<step, txList, noWeb3Open, fullLogLines, minimalLogLines,
                   ethSpent, result, onbeforeunload, engines, hostCalls, calls,
                   costSinceStart, approvals, localStorage>>

(***************************************************************************)
(* startInstallation, from the await on                                    *)
(***************************************************************************)
\* let web3 = undefined; try { web3 = await getWeb3() } catch (e) { ... }
Web3Of(outcome) == IF outcome = "client" THEN "client" ELSE Undefined

\* Mutant: migrateDAO(dao, callbacks) called before onStart().
startInstallationResumed_migrateFirst(outcome, dao) ==
    /\ awaiting > 0
    /\ awaiting' = awaiting - 1
    /\ IF Web3Of(outcome) = Undefined
       THEN /\ console' = IF outcome = "throw" THEN Text("getWeb3 error") ELSE console
            /\ noWeb3Open' = TRUE
            /\ UNCHANGED <<step, txList, fullLogLines, minimalLogLines, ethSpent,
                           result, onbeforeunload, engines, hostCalls, calls,
                           costSinceStart, approvals, localStorage>>
       ELSE /\ Len(engines) < MaxEngines
            /\ Len(hostCalls) < MaxHostCalls
            /\ onbeforeunload' = GuardWarn
            /\ fullLogLines' = <<>>
            /\ minimalLogLines' = <<>>
            /\ hostCalls' = Append(hostCalls, onStart)
            /\ calls' = calls \o <<migrateDAO(dao), onStart>>
            /\ result' = Undefined
            /\ step' = Migrating
            /\ engines' = Append(engines, [dao |-> dao, status |-> "running"])
            /\ costSinceStart' = 0
            /\ UNCHANGED <<txList, noWeb3Open, ethSpent, console, approvals,
                           localStorage>>

\* Mutant: a successful start clears the "no provider" notice.
startInstallationResumed_clearsFlag(outcome, dao) ==
    /\ awaiting > 0
    /\ awaiting' = awaiting - 1
    /\ IF Web3Of(outcome) = Undefined
       THEN /\ console' = IF outcome = "throw" THEN Text("getWeb3 error") ELSE console
            /\ noWeb3Open' = TRUE
            /\ UNCHANGED <<step, txList, fullLogLines, minimalLogLines, ethSpent,
                           result, onbeforeunload, engines, hostCalls, calls,
                           costSinceStart, approvals, localStorage>>
       ELSE /\ Len(engines) < MaxEngines
            /\ Len(hostCalls) < MaxHostCalls
            /\ onbeforeunload' = GuardWarn
            /\ fullLogLines' = <<>>
            /\ minimalLogLines' = <<>>
            /\ hostCalls' = Append(hostCalls, onStart)
            /\ calls' = calls \o <<onStart, migrateDAO(dao)>>
            /\ result' = Undefined
            /\ step' = Migrating
            /\ engines' = Append(engines, [dao |-> dao, status |-> "running"])
            /\ costSinceStart' = 0
            /\ noWeb3Open' = FALSE
            /\ UNCHANGED <<txList, ethSpent, console, approvals, localStorage>>

startInstallationResumed(outcome, dao) ==
    /\ awaiting > 0
    /\ awaiting' = awaiting - 1
    /\ IF Web3Of(outcome) = Undefined
       THEN /\ console' = IF outcome = "throw" THEN Text("getWeb3 error") ELSE console
            /\ noWeb3Open' = TRUE
            /\ UNCHANGED <<step, txList, fullLogLines, minimalLogLines, ethSpent,
                           result, onbeforeunload, engines, hostCalls, calls,
                           costSinceStart, approvals, localStorage>>
       ELSE /\ Len(engines) < MaxEngines
            /\ Len(hostCalls) < MaxHostCalls
            /\ onbeforeunload' = GuardWarn
            /\ fullLogLines' = <<>>
            /\ minimalLogLines' = <<>>
            /\ hostCalls' = Append(hostCalls, onStart)
            /\ calls' = calls \o <<onStart, migrateDAO(dao)>>
            /\ result' = Undefined
            /\ step' = Migrating
            /\ engines' = Append(engines, [dao |-> dao, status |-> "running"])
            /\ costSinceStart' = 0
            /\ UNCHANGED <<txList, noWeb3Open, ethSpent, console, approvals,
                           localStorage>>

(***************************************************************************)
(* The callback bundle built by getCallbacks                               *)
(***************************************************************************)
\* addLogLine writes the log line to the console and nothing else.
addLogLine(logLine) ==
    /\ console' = logLine
    /\ fullLogLines' = fullLogLines

\* The promise's resolver lives only in the LogUserApproval handed to
\* addLogLine, so the promise stays pending.
userApproval(msg) ==
    /\ approvals < MaxApprovals
    /\ approvals' = approvals + 1
    /\ addLogLine(LogUserApproval(msg))
    /\ UNCHANGED <<step, txList, noWeb3Open, minimalLogLines, ethSpent, result,
                   onbeforeunload, awaiting, hostCalls, calls, costSinceStart,
                   localStorage>>

info(msg) ==
    /\ addLogLine(LogInfo(msg))
    /\ UNCHANGED <<step, txList, noWeb3Open, minimalLogLines, ethSpent, result,
                   onbeforeunload, awaiting, hostCalls, calls, costSinceStart,
                   approvals, localStorage>>

error(msg) ==
    /\ addLogLine(LogError(msg))
    /\ UNCHANGED <<step, txList, noWeb3Open, minimalLogLines, ethSpent, result,
                   onbeforeunload, awaiting, hostCalls, calls, costSinceStart,
                   approvals, localStorage>>

txComplete(msg, txHash, txCost) ==
    /\ ethSpent + txCost <= MaxSpent
    /\ ethSpent' = ethSpent + txCost
    /\ addLogLine(LogTransactionResult(msg, txHash, txCost))
    /\ costSinceStart' = costSinceStart + txCost
    /\ UNCHANGED <<step, txList, noWeb3Open, minimalLogLines, result,
                   onbeforeunload, awaiting, hostCalls, calls, approvals,
                   localStorage>>

\* Mutant: onStop() called before onAbort(err).
migrationAborted_stopFirst(err) ==
    /\ Len(hostCalls) + 2 <= MaxHostCalls
    /\ addLogLine(LogMigrationAborted(err))
    /\ hostCalls' = hostCalls \o <<onStop, onAbort(err)>>
    /\ calls' = calls \o <<onStop, onAbort(err)>>
    /\ step' = Failed
    /\ UNCHANGED <<txList, noWeb3Open, minimalLogLines, ethSpent, result,
                   onbeforeunload, awaiting, costSinceStart,
                   approvals, localStorage>>

migrationAborted(err) ==
    /\ Len(hostCalls) + 2 <= MaxHostCalls
    /\ addLogLine(LogMigrationAborted(err))
    /\ hostCalls' = hostCalls \o <<onAbort(err), onStop>>
    /\ calls' = calls \o <<onAbort(err), onStop>>
    /\ step' = Failed
    /\ UNCHANGED <<txList, noWeb3Open, minimalLogLines, ethSpent, result,
                   onbeforeunload, awaiting, costSinceStart,
                   approvals, localStorage>>

\* Mutant: completion also removes the stored checkpoint.
migrationComplete_clearsCheckpoint(res) ==
    /\ Len(hostCalls) + 2 <= MaxHostCalls
    /\ onbeforeunload' = GuardSilent
    /\ result' = res
    /\ step' = Completed
    /\ hostCalls' = hostCalls \o <<onComplete(res), onStop>>
    /\ calls' = calls \o <<onComplete(res), onStop>>
    /\ localStorage' = <<>>
    /\ UNCHANGED <<txList, noWeb3Open, fullLogLines, minimalLogLines, ethSpent,
                   console, awaiting, costSinceStart, approvals>>

\* Mutant: setResult(result) left out.
migrationComplete_resultDropped(res) ==
    /\ Len(hostCalls) + 2 <= MaxHostCalls
    /\ onbeforeunload' = GuardSilent
    /\ step' = Completed
    /\ hostCalls' = hostCalls \o <<onComplete(res), onStop>>
    /\ calls' = calls \o <<onComplete(res), onStop>>
    /\ UNCHANGED <<txList, noWeb3Open, fullLogLines, minimalLogLines, ethSpent,
                   result, console, awaiting, costSinceStart,
                   approvals, localStorage>>

migrationComplete(res) ==
    /\ Len(hostCalls) + 2 <= MaxHostCalls
    /\ onbeforeunload' = GuardSilent
    /\ result' = res
    /\ step' = Completed
    /\ hostCalls' = hostCalls \o <<onComplete(res), onStop>>
    /\ calls' = calls \o <<onComplete(res), onStop>>
    /\ UNCHANGED <<txList, noWeb3Open, fullLogLines, minimalLogLines, ethSpent,
                   console, awaiting, costSinceStart, approvals, localStorage>>

\* Mutant: the stored text is returned as it is, JSON.parse left out.
getState_unparsed ==
    IF localStorage # NoItem /\ Len(localStorage[1]) > 0
    THEN JStr(localStorage[1])
    ELSE EmptyObject

\* getState: what a call returns in the current state.
getState ==
    IF localStorage # NoItem /\ Len(localStorage[1]) > 0
    THEN JSONparse(localStorage[1])
    ELSE EmptyObject

setState(state) ==
    /\ localStorage' = Item(JSONstringify(state))
    /\ UNCHANGED <<step, txList, noWeb3Open, fullLogLines, minimalLogLines,
                   ethSpent, result, onbeforeunload, console, awaiting,
                   hostCalls, calls, costSinceStart, approvals>>

cleanState ==
    /\ localStorage' = NoItem
    /\ UNCHANGED <<step, txList, noWeb3Open, fullLogLines, minimalLogLines,
                   ethSpent, result, onbeforeunload, console, awaiting,
                   hostCalls, calls, costSinceStart, approvals>>

(***************************************************************************)
(* The collaborators: the Migration Engine and the host                    *)
(***************************************************************************)
Ended(i) == [engines EXCEPT ![i].status = "ended"]

InFlight == {i \in DOMAIN engines : engines[i].status = "running"}

\* An invoked Engine calls the callbacks of its bundle at its discretion, in
\* an order it determines.
EngineReports(i) ==
    /\ i \in DOMAIN engines
    /\ UNCHANGED engines
    /\ \/ \E m \in Msgs : userApproval(m)
       \/ \E m \in Msgs : info(m)
       \/ \E m \in Msgs : error(m)
       \/ \E m \in Msgs, h \in TxHashes, c \in Costs : txComplete(m, h, c)

EngineAborts(i) ==
    /\ i \in DOMAIN engines
    /\ engines' = Ended(i)
    /\ \E e \in Errors : migrationAborted(e)

EngineCompletes(i) ==
    /\ i \in DOMAIN engines
    /\ engines' = Ended(i)
    /\ \E r \in Results : migrationComplete(r)

EngineStores(i) ==
    /\ i \in DOMAIN engines
    /\ UNCHANGED engines
    /\ \/ \E b \in Checkpoints : setState(b)
       \/ cleanState

\* The host offers the reset only once the migration has ended.
resetSession ==
    /\ step \in {Completed, Failed}
    /\ resetState

\* The button shown in place of "Install Organisation" when step is Completed
alchemyButton ==
    /\ step = Completed
    /\ openAlchemy

\* startInstallation is offered in every phase, as the operation it is; the
\* "Install Organisation" button calls it while step is Waiting only.
Next ==
    \/ resetSession /\ UNCHANGED <<csvVars, editorVars, formVars>>
    \/ nextStep /\ UNCHANGED <<csvVars, editorVars, formVars>>
    \/ alchemyButton /\ UNCHANGED <<csvVars, editorVars, formVars>>
    \/ startInstallation /\ UNCHANGED <<csvVars, editorVars, formVars>>
    \/ \E o \in ProviderOutcomes, d \in Daos :
         startInstallationResumed(o, d) /\ UNCHANGED <<csvVars, editorVars, formVars>>
    \/ \E i \in 1..MaxEngines :
         EngineReports(i) /\ UNCHANGED <<csvVars, editorVars, formVars>>
    \/ \E i \in 1..MaxEngines :
         EngineAborts(i) /\ UNCHANGED <<csvVars, editorVars, formVars>>
    \/ \E i \in 1..MaxEngines :
         EngineCompletes(i) /\ UNCHANGED <<csvVars, editorVars, formVars>>
    \/ \E i \in 1..MaxEngines :
         EngineStores(i) /\ UNCHANGED <<csvVars, editorVars, formVars>>

Spec == Init /\ [][Next]_vars

(***************************************************************************)
(* The checkpoint callbacks alone, applied to every blob of JsonValues.    *)
(***************************************************************************)
StoreNext ==
    \/ \E b \in JsonValues :
         setState(b) /\ UNCHANGED <<engines, csvVars, editorVars, formVars>>
    \/ cleanState /\ UNCHANGED <<engines, csvVars, editorVars, formVars>>

SpecStore == Init /\ [][StoreNext]_vars

(***************************************************************************)
(* MembersCSVImport: the user opens and closes the Dialog and selects      *)
(* files; the loads end in any order.                                      *)
(***************************************************************************)
CSVNext ==
    \/ fabClick /\ UNCHANGED <<migratorVars, editorVars, formVars>>
    \/ handleDialogClose /\ UNCHANGED <<migratorVars, editorVars, formVars>>
    \/ \E files \in FileLists(MaxReaders) :
         importCSV(files) /\ UNCHANGED <<migratorVars, editorVars, formVars>>
    \/ \E i \in 1..MaxReaders :
         onloadend(i) /\ UNCHANGED <<migratorVars, editorVars, formVars>>
    \/ \E k \in 1..MaxReaders :
         parseCSV(k) /\ UNCHANGED <<migratorVars, editorVars, formVars>>

SpecCSV == Init /\ [][CSVNext]_vars

(***************************************************************************)
(* VotingMachineEditor: the parent adds a field to the form, or switches   *)
(* editable, and the component is rendered again.                          *)
(***************************************************************************)
EditorNext ==
    \/ \E f \in FieldIds :
         /\ Len(fields) < MaxFields
         /\ \A i \in DOMAIN fields : fields[i] # f
         /\ render(Append(fields, f), editable)
         /\ UNCHANGED <<migratorVarsButConsole, csvVars, formVars>>
    \/ render(fields, ~editable)
         /\ UNCHANGED <<migratorVarsButConsole, csvVars, formVars>>

SpecEditor == Init /\ [][EditorNext]_vars

(***************************************************************************)
(* lib/forms: a DAO form is filled in and copied with CreateDAOForm.       *)
(***************************************************************************)
FormsNext ==
    \/ \E name \in ConfigFields, value \in Names :
         setConfigValue(name, value)
           /\ UNCHANGED <<migratorVars, csvVars, editorVars>>
    \/ \E m \in MemberInputs :
         pushMember(m[1], m[2], m[3])
           /\ UNCHANGED <<migratorVars, csvVars, editorVars>>
    \/ \E f \in NewSchemeForms :
         pushScheme(f) /\ UNCHANGED <<migratorVars, csvVars, editorVars>>
    \/ \E state \in DAOStates :
         daoFromState(state) /\ UNCHANGED <<migratorVars, csvVars, editorVars>>
    \/ \E state \in ConfigStates :
         configFromState(state)
           /\ UNCHANGED <<migratorVars, csvVars, editorVars>>
    \/ \E state \in ListsUpTo(MemberStates, MaxMembers) :
         membersFromState(state)
           /\ UNCHANGED <<migratorVars, csvVars, editorVars>>
    \/ \E i \in 1..MaxMembers, state \in MemberStates :
         memberFromState(i, state)
           /\ UNCHANGED <<migratorVars, csvVars, editorVars>>
    \/ \E state \in ListsUpTo(SchemeStates, MaxSchemes) :
         schemesFromState(state)
           /\ UNCHANGED <<migratorVars, csvVars, editorVars>>
    \/ \E i \in 1..MaxSchemes, state \in SchemeStates :
         schemeFromState(i, state)
           /\ UNCHANGED <<migratorVars, csvVars, editorVars>>
    \/ \E i \in 1..MaxSchemes, state \in GenesisProtocolStates :
         votingMachineFromState(i, state)
           /\ UNCHANGED <<migratorVars, csvVars, editorVars>>
    \/ copyForm /\ UNCHANGED <<migratorVars, csvVars, editorVars>>

SpecForms == Init /\ [][FormsNext]_vars

(***************************************************************************)
(* Properties                                                              *)
(***************************************************************************)
Terminal == {Completed, Failed}

\* C1: at most one Engine invocation (migrateDAO) is in flight at any time,
\* for every interleaving of clicks and provider resolutions.
C1_SingleInFlight == Cardinality(InFlight) <= 1

\* C2: a startInstallation call made in any phase other than Waiting changes
\* nothing: no provider query is left pending, no Engine is invoked, onStart
\* is not called, and step, fullLogLines, ethSpent, result and noWeb3Open
\* keep their values.
C2_StartOutsideWaitingIsNoOp ==
    [][(step # Waiting /\ startInstallation)
         => UNCHANGED <<step, fullLogLines, ethSpent, result, noWeb3Open,
                        awaiting, engines, hostCalls, onbeforeunload>>]_vars

\* C2 witness: a single migration is running, a transaction has completed, and
\* the last thing on the console is the trace of a startInstallation call, so
\* that call was made while step was Migrating.
C2_Witness ==
    /\ step = Migrating
    /\ Len(engines) = 1
    /\ ethSpent > 0
    /\ awaiting = 0
    /\ console = Text("Starting Installation")

\* C3: step only moves Waiting -> Migrating -> {Completed, Failed}; from
\* Completed or Failed nothing but resetState changes it.
C3_PhaseOrder ==
    [][/\ step = Waiting => step' \in {Waiting, Migrating}
       /\ step = Migrating => step' \in {Migrating, Completed, Failed}
       /\ (step \in Terminal /\ step' # step) => resetState]_vars

\* C4: once a terminal callback has set a terminal phase, a further
\* migrationAborted or migrationComplete neither changes step nor notifies
\* the host again.
C4_TerminalCallbacksOnce ==
    [][(/\ step \in Terminal
        /\ \/ \E e \in Errors : migrationAborted(e)
           \/ \E r \in Results : migrationComplete(r))
         => (step' = step /\ hostCalls' = hostCalls)]_vars

\* C5: every log-producing callback appends exactly one entry of its variant
\* to fullLogLines, keeping the earlier entries in order.
C5_LogAppend ==
    [][/\ \A m \in Msgs :
            /\ info(m) => fullLogLines' = Append(fullLogLines, LogInfo(m))
            /\ error(m) => fullLogLines' = Append(fullLogLines, LogError(m))
            /\ userApproval(m)
                 => fullLogLines' = Append(fullLogLines, LogUserApproval(m))
            /\ \A h \in TxHashes, c \in Costs :
                 txComplete(m, h, c)
                   => fullLogLines'
                        = Append(fullLogLines, LogTransactionResult(m, h, c))
       /\ \A e \in Errors :
            migrationAborted(e)
              => fullLogLines' = Append(fullLogLines, LogMigrationAborted(e))]_vars

\* C6: after a successful start, ethSpent is the sum of the costs passed to
\* txComplete since that start.
C6_CostIsSumSinceStart == engines # <<>> => ethSpent = costSinceStart

\* C7: when getWeb3 rejects or yields no client, the resumed call sets
\* noWeb3Open and leaves step at Waiting; it invokes no Engine, does not
\* call onStart, does not install the unload guard, and leaves fullLogLines
\* and result unchanged; and with noWeb3Open set, a resolution that yields
\* a client still starts the migration from Waiting.
C7_ProviderFailure ==
    [][/\ \A o \in {"null", "throw"}, d \in Daos :
            startInstallationResumed(o, d)
              => /\ noWeb3Open' = TRUE
                 /\ step' = Waiting
                 /\ engines' = engines
                 /\ hostCalls' = hostCalls
                 /\ calls' = calls
                 /\ onbeforeunload' = onbeforeunload
                 /\ fullLogLines' = fullLogLines
                 /\ result' = result
       /\ \A d \in Daos :
            (noWeb3Open /\ step = Waiting /\ startInstallationResumed("client", d))
              => /\ step' = Migrating
                 /\ Len(engines') = Len(engines) + 1]_vars

\* C8: migrationAborted(err) sets step to Failed and notifies the host with
\* onAbort(err) and then onStop(), once each, and with nothing else.
C8_AbortNotifies ==
    [][\A e \in Errors :
         migrationAborted(e)
           => /\ step' = Failed
              /\ hostCalls' = hostCalls \o <<onAbort(e), onStop>>]_vars

\* C8 witness: a migration was started and aborted.
C8_Witness ==
    /\ step = Failed
    /\ hostCalls = <<onStart, onAbort("err1"), onStop>>

\* C9: migrationComplete(result) sets step to Completed, stores the result it
\* was passed, and notifies the host with onComplete(result) and then
\* onStop(), once each, and with nothing else.
C9_CompleteNotifies ==
    [][\A r \in Results :
         migrationComplete(r)
           => /\ step' = Completed
              /\ result' = r
              /\ hostCalls' = hostCalls \o <<onComplete(r), onStop>>]_vars

\* C9 witness: a migration was started, transactions completed (a total of 3
\* takes at least two of them), and the Engine reported completion.
C9_Witness ==
    /\ step = Completed
    /\ result = "res2"
    /\ ethSpent = 3
    /\ hostCalls = <<onStart, onComplete("res2"), onStop>>

\* C10: whenever step is Completed or Failed the page-unload warning is not
\* active.
C10_NoGuardAfterTerminal == step \in Terminal => ~GuardActive

\* C11: every approval request that is still pending is held by a
\* UserApproval line of fullLogLines, where the host UI can reach its resolver
\* and settle it with the user's decision.
C11_ApprovalReachable ==
    approvals <= Cardinality({i \in DOMAIN fullLogLines :
                                fullLogLines[i].kind = "LogUserApproval"})

\* C12: setState(blob) followed by getState() yields blob, whatever was stored
\* before; cleanState() followed by getState() yields the empty object, and so
\* does getState() while nothing is stored.
C12_CheckpointRoundTrip ==
    /\ [](~CheckpointPresent => getState = EmptyObject)
    /\ [][/\ \A b \in JsonValues : setState(b) => getState' = b
          /\ cleanState => getState' = EmptyObject]_vars

\* C12 witness: a blob whose text needs escaping and a two-digit number has
\* been stored and reads back.
C12_Witness == getState = JArr(<<JStr(<<"\"">>), JNum(10)>>)

\* C13 (as claimed): a checkpoint is in the store exactly when the session has
\* entered Migrating and the checkpoint has not been cleared since: there is
\* none before the first migration, one while Migrating, none once Completed.
C13_CheckpointIffMigrated ==
    /\ CheckpointPresent => engines # <<>>
    /\ step = Migrating => CheckpointPresent
    /\ step = Completed => ~CheckpointPresent

\* C13 (amended): a checkpoint appears in the store only by setState, called
\* by an Engine that has been invoked, and disappears only by cleanState,
\* called likewise; no phase change creates or clears it.
C13_CheckpointByEngineOnly ==
    [][/\ (~CheckpointPresent /\ CheckpointPresent')
            => (engines # <<>> /\ \E b \in Checkpoints : setState(b))
       /\ (CheckpointPresent /\ ~CheckpointPresent')
            => (engines # <<>> /\ cleanState)]_vars

\* C13 witness: the migration is Completed and the checkpoint the Engine wrote
\* during it is still stored.
C13_Witness ==
    /\ step = Completed
    /\ Len(engines) = 1
    /\ localStorage = Item(JSONstringify(JObj(<<<< <<"a">>, JNum(7) >>>>)))

\* C14: resetState, invoked in Completed or Failed, sets step to Waiting,
\* leaves fullLogLines empty and noWeb3Open false; and in Waiting a
\* startInstallation call is accepted (it goes on to query the provider).
C14_ResetReturnsToWaiting ==
    [][/\ (step \in Terminal /\ resetState)
            => (step' = Waiting /\ fullLogLines' = <<>> /\ noWeb3Open' = FALSE)
       /\ (step = Waiting /\ startInstallation) => awaiting' = awaiting + 1]_vars

\* C14 witness: after an ended migration the session is back in Waiting with
\* the notice cleared, and a startInstallation call is awaiting the provider.
C14_Witness ==
    /\ step = Waiting
    /\ engines # <<>>
    /\ InFlight = {}
    /\ ~noWeb3Open
    /\ fullLogLines = <<>>
    /\ awaiting = 1
    /\ console = Text("Starting Installation")

\* C15: a migration that starts after the previous one ended and the session
\* was reset starts from initial values: ethSpent 0, fullLogLines empty,
\* result undefined.
C15_FreshSession ==
    [][\A d \in Daos :
         (/\ step = Waiting
          /\ engines # <<>>
          /\ InFlight = {}
          /\ startInstallationResumed("client", d))
           => (ethSpent' = 0 /\ fullLogLines' = <<>> /\ result' = Undefined)]_vars

\* C16: a startInstallation whose provider resolution succeeds empties
\* fullLogLines, calls onStart once and then, with nothing in between,
\* migrateDAO once with the dao it was given, and sets step to Migrating.
\* In the order of calls every migrateDAO comes directly after an onStart,
\* and every notification made on behalf of an Engine comes after the first
\* onStart and the first migrateDAO.
C16_StartDispatch ==
    /\ [](\A i \in DOMAIN calls :
            calls[i].fn = "migrateDAO" => (i > 1 /\ calls[i - 1] = onStart))
    /\ [](\A i \in DOMAIN calls :
            calls[i].fn \in {"onAbort", "onComplete", "onStop"}
              => (i > 2 /\ calls[1] = onStart /\ calls[2].fn = "migrateDAO"))
    /\ [](engines # <<>> => (hostCalls # <<>> /\ hostCalls[1] = onStart))
    /\ [][\A d \in Daos :
            startInstallationResumed("client", d)
              => /\ fullLogLines' = <<>>
                 /\ hostCalls' = Append(hostCalls, onStart)
                 /\ calls' = calls \o <<onStart, migrateDAO(d)>>
                 /\ step' = Migrating
                 /\ engines' = Append(engines, [dao |-> d, status |-> "running"])]_vars

\* C16 witness: a migration of dao2 has been started, onStart first and
\* migrateDAO(dao2) second, and the Engine has since reported completion.
C16_Witness ==
    /\ step = Completed
    /\ engines = <<[dao |-> "dao2", status |-> "ended"]>>
    /\ calls = <<onStart, migrateDAO("dao2"), onComplete("res1"), onStop>>
    /\ awaiting = 0

\* C17: info, error, userApproval, txComplete, migrationAborted,
\* migrationComplete, resetState, nextStep, openAlchemy and startInstallation
\* leave the
\* stored item, and so what getState returns, unchanged.
C17_CheckpointFrame ==
    [][(\/ \E m \in Msgs : info(m) \/ error(m) \/ userApproval(m)
        \/ \E m \in Msgs, h \in TxHashes, c \in Costs : txComplete(m, h, c)
        \/ \E e \in Errors : migrationAborted(e)
        \/ \E r \in Results : migrationComplete(r)
        \/ resetState
        \/ nextStep
        \/ openAlchemy
        \/ startInstallation
        \/ \E o \in ProviderOutcomes, d \in Daos : startInstallationResumed(o, d))
         => localStorage' = localStorage]_vars

\* C17 witness: a migration was aborted, the session reset and a second
\* migration started, and the checkpoint written by the Engine reads back.
C17_Witness ==
    /\ step = Migrating
    /\ Len(engines) = 2
    /\ engines[1].status = "ended"
    /\ hostCalls = <<onStart, onAbort("err1"), onStop, onStart>>
    /\ getState = JObj(<<<< <<"a">>, JNum(7) >>>>)

\* C18: noWeb3Open, once set, is cleared by nothing but resetState; a
\* resolution that yields a client moves step to Migrating and leaves it set.
C18_FlagSticky ==
    [][/\ (noWeb3Open /\ ~noWeb3Open') => resetState
       /\ \A d \in Daos :
            (noWeb3Open /\ startInstallationResumed("client", d))
              => (noWeb3Open' /\ step' = Migrating)]_vars

\* C18 witness: the only migration ever started has completed and the "no
\* provider" notice is still set.
C18_Witness ==
    /\ noWeb3Open
    /\ step = Completed
    /\ Len(engines) = 1
    /\ awaiting = 0

\* Occurrences of x in the sequence s
Occurrences(s, x) == Cardinality({i \in DOMAIN s : s[i] = x})

\* The MemberForms of one file
MembersOf(file) ==
    LET parsed == parse(file) IN [k \in 1..Len(parsed) |-> addMembers(parsed[k])]

RECURSIVE SelectedOccurrences(_, _)
SelectedOccurrences(rs, m) ==
    IF rs = <<>> THEN 0
    ELSE Occurrences(MembersOf(Head(rs).file), m) + SelectedOccurrences(Tail(rs), m)

\* C19: once the loads of all files selected in one importCSV event have
\* ended and every parse callback has been delivered, the members form holds
\* the rows of every selected file exactly once, whatever the order in which
\* the loads ended.
C19_EveryFileOnce ==
    (/\ imports = 1
     /\ parsing = <<>>
     /\ \A i \in DOMAIN readers : readers[i].result # Null)
      => \A f \in CsvFiles : \A k \in DOMAIN MembersOf(f) :
           Occurrences(members, MembersOf(f)[k])
             = SelectedOccurrences(readers, MembersOf(f)[k])

\* FormFields bound to field f in one rendered element
RECURSIVE BoundIn(_, _)
BoundIn(element, f) ==
    IF element.tag = "FormField"
    THEN IF element.field = f THEN 1 ELSE 0
    ELSE BoundIn(element.children[1], f) + BoundIn(element.children[2], f)

RECURSIVE BoundTo(_, _)
BoundTo(elements, f) ==
    IF elements = <<>> THEN 0
    ELSE BoundIn(Head(elements), f) + BoundTo(Tail(elements), f)

\* C20: for every index i of fields the rendered output contains exactly one
\* FormField bound to fields[i]: none omitted, none rendered twice.
C20_EveryFieldOnce ==
    \A i \in DOMAIN fields : BoundTo(rendered, fields[i]) = 1

\* C21: the form returned by CreateDAOForm(f) has the state of f: the same
\* config values, the same list of members and the same list of schemes.
C21_CopyPreservesState ==
    copied # NoForm => DAOToState(copied.form) = DAOToState(copied.of)
====
